---- MODULE Spec2Model ----
(***************************************************************************)
(* gateway-cd: the CanaryDeployment reconciler (controller package), the   *)
(* Gateway API manager that rewrites the HTTPRoute, and the Prometheus     *)
(* analysis provider.                                                      *)
(*                                                                         *)
(* One rollout and the route it references are modelled.  A Reconcile      *)
(* action is one whole invocation of Reconcile(): every external call it   *)
(* makes (route Get/Update, metadata Update, status Update, metrics        *)
(* queries) succeeds or fails by a nondeterministic input of the action.   *)
(* Floating point readings are modelled as integers (success rate in       *)
(* percent).  The requeue delay of the step-advance path, which the code   *)
(* takes from the step's duration string (default 30s), is the tag         *)
(* "step".                                                                 *)
(***************************************************************************)
EXTENDS Integers, Sequences, FiniteSets, TLC

\* ---------------------------------------------------------------- bounds
MaxSteps == 2
MaxRules == 2

\* ------------------------------------------------------- phases (types.go)
PhasePending     == "Pending"
PhaseProgressing == "Progressing"
PhasePaused      == "Paused"
PhaseSucceeded   == "Succeeded"
PhaseFailed      == "Failed"
PhaseRollingBack == "RollingBack"

\* ------------------------------------------------------------ annotations
AnnResume  == "gateway-cd.io/resume"
AnnPause   == "gateway-cd.io/pause"
AnnAbort   == "gateway-cd.io/abort"
AnnPromote == "gateway-cd.io/promote"
Intents    == {AnnResume, AnnPause, AnnAbort, AnnPromote}

\* --------------------------------------------------------- the declared spec
\* Step weights a rollout may declare.
Weights == {30, 100}

TrafficSplitStep == [weight : Weights, pause : BOOLEAN]

RECURSIVE SeqsUpTo(_, _)
SeqsUpTo(S, n) ==
    IF n = 0 THEN {<<>>}
    ELSE LET shorter == SeqsUpTo(S, n - 1)
         IN  shorter \cup {Append(s, x) : s \in {t \in shorter : Len(t) = n - 1}, x \in S}

NoAnalysis == [metrics |-> <<>>, successRate |-> 0, maxLatency |-> 0]

LatencyOnly == [metrics |-> <<>>, successRate |-> 0, maxLatency |-> 200]

FullAnalysis ==
    [metrics |-> <<[name |-> "errors", threshold |-> 5, operator |-> "<"]>>,
     successRate |-> 99, maxLatency |-> 200]

\* Analysis templates: empty, latency only, and all three kinds of criterion.
AnalysisTemplates == {NoAnalysis, LatencyOnly, FullAnalysis}

ServiceName == "app"

CanaryDeploymentSpec ==
    [service      : {ServiceName},
     trafficSplit : SeqsUpTo(TrafficSplitStep, MaxSteps),
     analysis     : AnalysisTemplates,
     skipAnalysis : BOOLEAN]

\* ------------------------------------------------------------------ status
NoAnalysisRun == [phase |-> "", successRate |-> 0, averageLatency |-> 0,
                  metricResults |-> <<>>]

EmptyStatus == [phase |-> "", message |-> "", currentStep |-> 0,
                canaryWeight |-> 0, stableWeight |-> 0,
                analysisRun |-> NoAnalysisRun]

\* ------------------------------------------------------------------- route
NoRoute == [exists |-> FALSE, rules |-> <<>>]

\* A match is modelled by its path; "" is the empty match {} (all traffic).
EmptyMatch == ""

BackendRef(name, weight) == [name |-> name, weight |-> weight]

StaleRefs == <<BackendRef("old", 1)>>

\* The route is absent, or has MaxRules rules: the first without a match and with
\* backends of an earlier owner, the others with a path match and no backend.
InitialRoutes ==
    { NoRoute,
      [exists |-> TRUE,
       rules  |-> [i \in 1..MaxRules |->
                     IF i = 1 THEN [matches |-> <<>>, backendRefs |-> StaleRefs]
                     ELSE [matches |-> <<"/api">>, backendRefs |-> <<>>]]] }

\* --------------------------------------------------- gateway.Manager (mutator)
CanaryServiceName(name) == name \o "-canary"

\* Mutant: the new backends are added to those the rule holds.
updateHTTPRouteBackends_Append(httpRouteIn, canarySpec, canaryWeight) ==
    LET stableBackend == BackendRef(canarySpec.service, 100 - canaryWeight)
        canaryBackend == BackendRef(CanaryServiceName(canarySpec.service), canaryWeight)
        refs == IF canaryWeight = 0 THEN <<stableBackend>>
                ELSE IF canaryWeight = 100 THEN <<canaryBackend>>
                ELSE <<stableBackend, canaryBackend>>
        rule(r) == [matches     |-> IF Len(r.matches) = 0 THEN <<EmptyMatch>>
                                    ELSE r.matches,
                    backendRefs |-> r.backendRefs \o refs]
    IN  [httpRouteIn EXCEPT !.rules = [i \in 1..Len(httpRouteIn.rules) |->
                                          rule(httpRouteIn.rules[i])]]

\* Mutant: both backends are always listed.
updateHTTPRouteBackends_AlwaysBoth(httpRouteIn, canarySpec, canaryWeight) ==
    LET stableBackend == BackendRef(canarySpec.service, 100 - canaryWeight)
        canaryBackend == BackendRef(CanaryServiceName(canarySpec.service), canaryWeight)
        rule(r) == [matches     |-> IF Len(r.matches) = 0 THEN <<EmptyMatch>>
                                    ELSE r.matches,
                    backendRefs |-> <<stableBackend, canaryBackend>>]
    IN  [httpRouteIn EXCEPT !.rules = [i \in 1..Len(httpRouteIn.rules) |->
                                          rule(httpRouteIn.rules[i])]]

\* Mutant: the stable backend keeps weight 100.
updateHTTPRouteBackends_FixedStable(httpRouteIn, canarySpec, canaryWeight) ==
    LET stableBackend == BackendRef(canarySpec.service, 100)
        canaryBackend == BackendRef(CanaryServiceName(canarySpec.service), canaryWeight)
        refs == IF canaryWeight = 0 THEN <<stableBackend>>
                ELSE IF canaryWeight = 100 THEN <<canaryBackend>>
                ELSE <<stableBackend, canaryBackend>>
        rule(r) == [matches     |-> IF Len(r.matches) = 0 THEN <<EmptyMatch>>
                                    ELSE r.matches,
                    backendRefs |-> refs]
    IN  [httpRouteIn EXCEPT !.rules = [i \in 1..Len(httpRouteIn.rules) |->
                                          rule(httpRouteIn.rules[i])]]

updateHTTPRouteBackends(httpRouteIn, canarySpec, canaryWeight) ==
    LET stableWeight  == 100 - canaryWeight
        stableBackend == BackendRef(canarySpec.service, stableWeight)
        canaryBackend == BackendRef(CanaryServiceName(canarySpec.service), canaryWeight)
        refs == IF canaryWeight = 0 THEN <<stableBackend>>
                ELSE IF canaryWeight = 100 THEN <<canaryBackend>>
                ELSE <<stableBackend, canaryBackend>>
        rule(r) == [matches     |-> IF Len(r.matches) = 0 THEN <<EmptyMatch>>
                                    ELSE r.matches,
                    backendRefs |-> refs]
    IN  [httpRouteIn EXCEPT !.rules = [i \in 1..Len(httpRouteIn.rules) |->
                                          rule(httpRouteIn.rules[i])]]

\* UpdateTrafficSplit: Get the route, rewrite it, Update it.  ioOK = FALSE is a
\* failing Get or Update of an existing route; an absent route always fails.
UpdateTrafficSplit(httpRouteIn, canarySpec, canaryWeight, ioOK) ==
    IF ~httpRouteIn.exists \/ ~ioOK
    THEN [err |-> TRUE, route |-> httpRouteIn]
    ELSE [err |-> FALSE,
          route |-> updateHTTPRouteBackends(httpRouteIn, canarySpec, canaryWeight)]

Cleanup(httpRouteIn, canarySpec, ioOK) ==
    UpdateTrafficSplit(httpRouteIn, canarySpec, 0, ioOK)

\* ------------------------------------------- metrics.PrometheusProvider
QueryError == -1

\* strconv.ParseFloat accepts "NaN" without error: the value of a query whose
\* expression divides zero by zero (no canary traffic in the window).
NaN == -2

\* Go's float64 comparisons: every ordered comparison and == with a NaN operand
\* is false, != is true.
Ordered(a, b) == a # NaN /\ b # NaN

\* One reading per query of an analysis run: the value, or QueryError.
MetricReadings  == {1, 9, QueryError}
SuccessReadings == {80, 100, QueryError}
LatencyReadings == {100, 300, QueryError}

Reading(metric, successRate, latency) ==
    [metric |-> metric, successRate |-> successRate, latency |-> latency]

Healthy == Reading(1, 100, 100)

\* What the metrics backend answers during one reconcile: healthy, one criterion
\* violated, or every query failing.
Readings == { Healthy, Reading(9, 100, 100), Reading(1, 80, 100),
              Reading(1, 100, 300),
              Reading(QueryError, QueryError, QueryError) }

compareValues(value, threshold, operator) ==
    CASE operator = ">"  -> Ordered(value, threshold) /\ value > threshold
      [] operator = ">=" -> Ordered(value, threshold) /\ value >= threshold
      [] operator = "<"  -> Ordered(value, threshold) /\ value < threshold
      [] operator = "<=" -> Ordered(value, threshold) /\ value <= threshold
      [] operator = "==" -> Ordered(value, threshold) /\ value = threshold
      [] operator = "!=" -> ~Ordered(value, threshold) \/ value # threshold
      [] OTHER           -> FALSE

evaluateMetric(metric, reading) ==
    [name |-> metric.name, value |-> reading, threshold |-> metric.threshold,
     passed |-> compareValues(reading, metric.threshold, metric.operator)]

\* The AnalysisResult RunAnalysis starts from; err and queries record its
\* error return and the metrics queries issued.
NewAnalysisResult ==
    [phase |-> "Running", successRate |-> 0, averageLatency |-> 0,
     metricResults |-> <<>>, passed |-> TRUE, err |-> FALSE, queries |-> 0]

QueryFailed(res) ==
    [res EXCEPT !.phase = "Failed", !.passed = FALSE, !.err = TRUE, !.queries = @ + 1]

\* The loop over Spec.Analysis.Metrics.  Every criterion's query returns
\* rd.metric, so a failing query fails the first criterion.
evaluateMetrics(res, metrics, rd) ==
    IF Len(metrics) = 0 THEN res
    ELSE IF rd.metric = QueryError THEN QueryFailed(res)
    ELSE LET mrs == [i \in 1..Len(metrics) |-> evaluateMetric(metrics[i], rd.metric)]
         IN  [res EXCEPT !.metricResults = mrs,
                         !.passed = \A i \in 1..Len(metrics) : mrs[i].passed,
                         !.queries = Len(metrics)]

checkSuccessRate(res, analysis, rd) ==
    IF res.err \/ ~(analysis.successRate > 0) THEN res
    ELSE IF rd.successRate = QueryError THEN QueryFailed(res)
    ELSE [res EXCEPT !.successRate = rd.successRate,
                     !.passed = @ /\ ~( /\ Ordered(rd.successRate, analysis.successRate)
                                        /\ rd.successRate < analysis.successRate ),
                     !.queries = @ + 1]

checkLatency(res, analysis, rd) ==
    IF res.err \/ ~(analysis.maxLatency > 0) THEN res
    ELSE IF rd.latency = QueryError THEN QueryFailed(res)
    ELSE [res EXCEPT !.averageLatency = rd.latency,
                     !.passed = @ /\ ~(rd.latency > analysis.maxLatency),
                     !.queries = @ + 1]

Completed(res) ==
    IF res.err THEN res
    ELSE [res EXCEPT !.phase = IF res.passed THEN "Successful" ELSE "Failed"]

RunAnalysis(analysis, rd) ==
    Completed(checkLatency(checkSuccessRate(
        evaluateMetrics(NewAnalysisResult, analysis.metrics, rd), analysis, rd),
        analysis, rd))

\* ------------------------------------------------------------------- state
VARIABLES
    canary,           \* the stored CanaryDeployment: exists, deletionTimestamp,
                      \* annotations (the keys whose value is "true"), spec, status
    httpRoute,        \* the stored HTTPRoute the rollout references
    MetricsProvider,  \* TRUE: a Prometheus provider is configured; FALSE: nil
    lastRouteWeight   \* canary weight of the last successful route write (0: none)

vars == <<canary, httpRoute, MetricsProvider, lastRouteWeight>>

\* ----------------------- what an invocation returned and the calls it made
\* requeueAfter and err are the returned (ctrl.Result, error); statusUpdates and
\* updates count the Status().Update and Update calls, statusFailed says that a
\* Status().Update failed, routeWrites lists the UpdateTrafficSplit calls,
\* analyzer says that the provider's RunAnalysis was called, queries counts the
\* metrics queries, index is the index at which trafficSplit was read (-1: not
\* read), from is the branch of the dispatch.
NoResult ==
    [requeueAfter |-> "none", err |-> FALSE,
     statusUpdates |-> 0, statusFailed |-> FALSE, updates |-> 0,
     routeWrites |-> <<>>, analyzer |-> FALSE, queries |-> 0, index |-> -1,
     from |-> ""]

\* ctrl.Result{RequeueAfter: requeue}, err
Return(requeue, err, from) ==
    [NoResult EXCEPT !.requeueAfter = requeue, !.err = err, !.from = from]

\* Mutant: a failed status write still leaves the in-memory status behind.
StatusUpdate_KeepMemory(stored, mem, ok) == mem

\* r.Status().Update(ctx, canary): the in-memory status replaces the stored one
\* when the write succeeds.
StatusUpdate(stored, mem, ok) == IF ok THEN mem ELSE stored

WithStatusUpdate(res, ok) ==
    [res EXCEPT !.statusUpdates = @ + 1, !.statusFailed = @ \/ ~ok]

WithRouteWrite(res, weight, m) ==
    [res EXCEPT !.routeWrites = Append(@, [weight |-> weight, ok |-> ~m.err])]

Outcome(status, annotations, route, res) ==
    [status |-> status, annotations |-> annotations, route |-> route, res |-> res]

\* ----------------------------------------------- status assignments (blocks)
PendingStatus(st) ==
    [st EXCEPT !.phase = PhasePending, !.currentStep = 0,
               !.canaryWeight = 0, !.stableWeight = 100]

ValidationFailedStatus(st) ==
    [st EXCEPT !.phase = PhaseFailed, !.message = "Validation failed"]

\* Mutant: the rollout is not started.
StartedStatus_StayPending(st) ==
    [st EXCEPT !.message = "Starting canary deployment"]

StartedStatus(st) ==
    [st EXCEPT !.phase = PhaseProgressing, !.message = "Starting canary deployment"]

\* Mutant: Succeeded keeps the weights of the last step.
SucceededStatus_KeepWeights(st) ==
    [st EXCEPT !.phase = PhaseSucceeded,
               !.message = "Canary deployment completed successfully"]

SucceededStatus(st) ==
    [st EXCEPT !.phase = PhaseSucceeded,
               !.message = "Canary deployment completed successfully",
               !.canaryWeight = 100, !.stableWeight = 0]

\* Mutant: a failed route write is recorded and the step is skipped.
MutatorErrorStatus_SkipStep(st) ==
    [st EXCEPT !.message = "Failed to update traffic split", !.currentStep = @ + 1]

MutatorErrorStatus(st) ==
    [st EXCEPT !.message = "Failed to update traffic split"]

\* Mutant: the stable weight is not recomputed.
TrafficUpdatedStatus_StaleStable(st, step) ==
    [st EXCEPT !.canaryWeight = step.weight, !.message = "Traffic split updated"]

TrafficUpdatedStatus(st, step) ==
    [st EXCEPT !.canaryWeight = step.weight, !.stableWeight = 100 - step.weight,
               !.message = "Traffic split updated"]

\* Mutant: pausing at a step also counts it.
PausedStatus_CountStep(st) ==
    [st EXCEPT !.phase = PhasePaused, !.currentStep = @ + 1,
               !.message = "Paused for manual approval"]

PausedStatus(st) ==
    [st EXCEPT !.phase = PhasePaused, !.message = "Paused for manual approval"]

AnalysisErrorStatus(st) ==
    [st EXCEPT !.message = "Analysis failed"]

\* Mutant: a failed analysis also advances currentStep.
AnalysisFailedStatus_Advance(st) ==
    [st EXCEPT !.phase = PhaseRollingBack, !.currentStep = @ + 1,
               !.message = "Analysis failed, rolling back"]

AnalysisFailedStatus(st) ==
    [st EXCEPT !.phase = PhaseRollingBack, !.message = "Analysis failed, rolling back"]

\* Mutant: an applied step is not counted.
NextStepStatus_NoAdvance(st) == st

NextStepStatus(st) ==
    [st EXCEPT !.currentStep = @ + 1]

\* Mutant: resume does not advance currentStep.
ResumedStatus_NoAdvance(st) ==
    [st EXCEPT !.phase = PhaseProgressing, !.message = "Resumed from pause"]

\* Mutant: resume advances past the step after the paused one.
ResumedStatus_DoubleAdvance(st) ==
    [st EXCEPT !.phase = PhaseProgressing, !.currentStep = @ + 2,
               !.message = "Resumed from pause"]

ResumedStatus(st) ==
    [st EXCEPT !.phase = PhaseProgressing, !.currentStep = @ + 1,
               !.message = "Resumed from pause"]

AbortedStatus(st) ==
    [st EXCEPT !.phase = PhaseRollingBack, !.message = "Aborted by user"]

RolledBackStatus(st) ==
    [st EXCEPT !.phase = PhaseFailed, !.canaryWeight = 0, !.stableWeight = 100,
               !.message = "Rollback completed"]

\* ------------------------------------------------------------ the reconciler
\* validateCanaryDeployment returns nil for every rollout: TRUE is "an error".
validateCanaryDeployment(c) == FALSE

\* runAnalysis: (passed, err), the analysisRun it leaves in the in-memory status,
\* and the metrics queries issued.
\* Mutant: the provider is consulted even when none is configured.
runAnalysis_AlwaysQuery(c, provider, rd) ==
    LET r == RunAnalysis(c.spec.analysis, rd)
    IN  IF r.err
        THEN [passed |-> FALSE, err |-> TRUE, run |-> c.status.analysisRun,
              queries |-> r.queries, provider |-> TRUE]
        ELSE [passed |-> r.passed, err |-> FALSE,
              run |-> [phase |-> r.phase, successRate |-> r.successRate,
                       averageLatency |-> r.averageLatency,
                       metricResults |-> r.metricResults],
              queries |-> r.queries, provider |-> TRUE]

runAnalysis(c, provider, rd) ==
    IF ~provider
    THEN [passed |-> TRUE, err |-> FALSE, run |-> c.status.analysisRun,
          queries |-> 0, provider |-> FALSE]
    ELSE LET r == RunAnalysis(c.spec.analysis, rd)
         IN  IF r.err
             THEN [passed |-> FALSE, err |-> TRUE, run |-> c.status.analysisRun,
                   queries |-> r.queries, provider |-> TRUE]
             ELSE [passed |-> r.passed, err |-> FALSE,
                   run |-> [phase |-> r.phase, successRate |-> r.successRate,
                            averageLatency |-> r.averageLatency,
                            metricResults |-> r.metricResults],
                   queries |-> r.queries, provider |-> TRUE]

\* Mutant: skipAnalysis is not consulted.
AnalysisConfigured_IgnoreSkip(spec) == spec.analysis.successRate > 0

\* The condition under which handleProgressing runs the analysis.
AnalysisConfigured(spec) == ~spec.skipAnalysis /\ spec.analysis.successRate > 0

handlePending(c, rt, io) ==
    IF validateCanaryDeployment(c)
    THEN Outcome(StatusUpdate(c.status, ValidationFailedStatus(c.status), io.status),
                 c.annotations, rt,
                 WithStatusUpdate(Return("none", TRUE, PhasePending), io.status))
    ELSE IF ~io.status
         THEN Outcome(c.status, c.annotations, rt,
                      WithStatusUpdate(Return("none", TRUE, PhasePending), FALSE))
         ELSE Outcome(StartedStatus(c.status), c.annotations, rt,
                      WithStatusUpdate(Return("5s", FALSE, PhasePending), TRUE))


\* Mutant: a paused step pauses only when no analysis is configured.
handleProgressing_AnalyzePaused(c, rt, provider, io) ==
    LET st == c.status
        ts == c.spec.trafficSplit
    IN
    IF st.currentStep >= Len(ts)
    THEN \* all steps completed; the error of Status().Update is dropped
         Outcome(StatusUpdate(st, SucceededStatus(st), io.status), c.annotations, rt,
                 WithStatusUpdate(Return("none", FALSE, PhaseProgressing), io.status))
    ELSE
    LET currentStep == ts[st.currentStep + 1]
        m    == UpdateTrafficSplit(rt, c.spec, currentStep.weight, io.route)
        ret(requeue) ==
            WithRouteWrite([Return(requeue, FALSE, PhaseProgressing)
                               EXCEPT !.index = st.currentStep],
                           currentStep.weight, m)
        mem1 == TrafficUpdatedStatus(st, currentStep)
    IN
    IF m.err
    THEN Outcome(StatusUpdate(st, MutatorErrorStatus(st), io.status), c.annotations,
                 m.route, WithStatusUpdate(ret("30s"), io.status))
    ELSE IF currentStep.pause /\ ~AnalysisConfigured(c.spec)
    THEN Outcome(StatusUpdate(st, PausedStatus(mem1), io.status), c.annotations,
                 m.route, WithStatusUpdate(ret("none"), io.status))
    ELSE IF AnalysisConfigured(c.spec)
    THEN LET a    == runAnalysis(c, provider, io.readings)
             mem2 == [mem1 EXCEPT !.analysisRun = a.run]
             retA(requeue) ==
                 WithStatusUpdate([ret(requeue) EXCEPT !.analyzer = a.provider,
                                                       !.queries = a.queries],
                                  io.status)
         IN  IF a.err
             THEN Outcome(StatusUpdate(st, AnalysisErrorStatus(mem2), io.status),
                          c.annotations, m.route, retA("30s"))
             ELSE IF ~a.passed
             THEN Outcome(StatusUpdate(st, AnalysisFailedStatus(mem2), io.status),
                          c.annotations, m.route, retA("5s"))
             ELSE Outcome(StatusUpdate(st, NextStepStatus(mem2), io.status),
                          c.annotations, m.route, retA("step"))
    ELSE Outcome(StatusUpdate(st, NextStepStatus(mem1), io.status), c.annotations,
                 m.route, WithStatusUpdate(ret("step"), io.status))

handleProgressing(c, rt, provider, io) ==
    LET st == c.status
        ts == c.spec.trafficSplit
    IN
    IF st.currentStep >= Len(ts)
    THEN \* all steps completed; the error of Status().Update is dropped
         Outcome(StatusUpdate(st, SucceededStatus(st), io.status), c.annotations, rt,
                 WithStatusUpdate(Return("none", FALSE, PhaseProgressing), io.status))
    ELSE
    LET currentStep == ts[st.currentStep + 1]
        m    == UpdateTrafficSplit(rt, c.spec, currentStep.weight, io.route)
        ret(requeue) ==
            WithRouteWrite([Return(requeue, FALSE, PhaseProgressing)
                               EXCEPT !.index = st.currentStep],
                           currentStep.weight, m)
        mem1 == TrafficUpdatedStatus(st, currentStep)
    IN
    IF m.err
    THEN Outcome(StatusUpdate(st, MutatorErrorStatus(st), io.status), c.annotations,
                 m.route, WithStatusUpdate(ret("30s"), io.status))
    ELSE IF currentStep.pause
    THEN Outcome(StatusUpdate(st, PausedStatus(mem1), io.status), c.annotations,
                 m.route, WithStatusUpdate(ret("none"), io.status))
    ELSE IF AnalysisConfigured(c.spec)
    THEN LET a    == runAnalysis(c, provider, io.readings)
             mem2 == [mem1 EXCEPT !.analysisRun = a.run]
             retA(requeue) ==
                 WithStatusUpdate([ret(requeue) EXCEPT !.analyzer = a.provider,
                                                       !.queries = a.queries],
                                  io.status)
         IN  IF a.err
             THEN Outcome(StatusUpdate(st, AnalysisErrorStatus(mem2), io.status),
                          c.annotations, m.route, retA("30s"))
             ELSE IF ~a.passed
             THEN Outcome(StatusUpdate(st, AnalysisFailedStatus(mem2), io.status),
                          c.annotations, m.route, retA("5s"))
             ELSE Outcome(StatusUpdate(st, NextStepStatus(mem2), io.status),
                          c.annotations, m.route, retA("step"))
    ELSE Outcome(StatusUpdate(st, NextStepStatus(mem1), io.status), c.annotations,
                 m.route, WithStatusUpdate(ret("step"), io.status))

\* Mutant: resume writes the status twice.
handlePaused_StatusTwice(c, rt, io) ==
    LET st == c.status
    IN
    IF AnnResume \in c.annotations
    THEN LET annotations == c.annotations \ {AnnResume}
             mem         == ResumedStatus(st)
             upd         == [Return("none", TRUE, PhasePaused) EXCEPT !.updates = 1]
         IN  IF ~io.update
             THEN Outcome(st, c.annotations, rt, upd)
             ELSE IF ~io.status
             THEN Outcome(st, annotations, rt, WithStatusUpdate(upd, FALSE))
             ELSE Outcome(mem, annotations, rt,
                          WithStatusUpdate(
                              WithStatusUpdate([upd EXCEPT !.requeueAfter = "5s",
                                                           !.err = FALSE], TRUE),
                              TRUE))
    ELSE IF AnnAbort \in c.annotations
    THEN Outcome(StatusUpdate(st, AbortedStatus(st), io.status), c.annotations, rt,
                 WithStatusUpdate(Return("5s", FALSE, PhasePaused), io.status))
    ELSE Outcome(st, c.annotations, rt, Return("30s", FALSE, PhasePaused))

handlePaused(c, rt, io) ==
    LET st == c.status
    IN
    IF AnnResume \in c.annotations
    THEN LET annotations == c.annotations \ {AnnResume}
             mem         == ResumedStatus(st)
             upd         == [Return("none", TRUE, PhasePaused) EXCEPT !.updates = 1]
         IN  IF ~io.update
             THEN Outcome(st, c.annotations, rt, upd)
             ELSE IF ~io.status
             THEN Outcome(st, annotations, rt, WithStatusUpdate(upd, FALSE))
             ELSE Outcome(mem, annotations, rt,
                          WithStatusUpdate([upd EXCEPT !.requeueAfter = "5s",
                                                       !.err = FALSE], TRUE))
    ELSE IF AnnAbort \in c.annotations
    THEN Outcome(StatusUpdate(st, AbortedStatus(st), io.status), c.annotations, rt,
                 WithStatusUpdate(Return("5s", FALSE, PhasePaused), io.status))
    ELSE Outcome(st, c.annotations, rt, Return("30s", FALSE, PhasePaused))

\* Mutant: the error of the route reset is dropped.
handleRollingBack_IgnoreError(c, rt, io) ==
    LET st == c.status
        m  == UpdateTrafficSplit(rt, c.spec, 0, io.route)
    IN  Outcome(StatusUpdate(st, RolledBackStatus(st), io.status), c.annotations,
                m.route,
                WithStatusUpdate(
                    WithRouteWrite(Return("none", FALSE, PhaseRollingBack), 0, m),
                    io.status))

\* Mutant: a failed route reset is recorded in the status.
handleRollingBack_RecordError(c, rt, io) ==
    LET st == c.status
        m  == UpdateTrafficSplit(rt, c.spec, 0, io.route)
    IN  IF m.err
        THEN Outcome(StatusUpdate(st, MutatorErrorStatus(st), io.status), c.annotations,
                     m.route,
                     WithStatusUpdate(
                         WithRouteWrite(Return("10s", FALSE, PhaseRollingBack), 0, m),
                         io.status))
        ELSE Outcome(StatusUpdate(st, RolledBackStatus(st), io.status), c.annotations,
                     m.route,
                     WithStatusUpdate(
                         WithRouteWrite(Return("none", FALSE, PhaseRollingBack), 0, m),
                         io.status))

handleRollingBack(c, rt, io) ==
    LET st == c.status
        m  == UpdateTrafficSplit(rt, c.spec, 0, io.route)
    IN  IF m.err
        THEN Outcome(st, c.annotations, m.route,
                     WithRouteWrite(Return("10s", FALSE, PhaseRollingBack), 0, m))
        ELSE Outcome(StatusUpdate(st, RolledBackStatus(st), io.status), c.annotations,
                     m.route,
                     WithStatusUpdate(
                         WithRouteWrite(Return("none", FALSE, PhaseRollingBack), 0, m),
                         io.status))

handleDeletion(c, rt, io) ==
    LET m == Cleanup(rt, c.spec, io.route)
    IN  Outcome(c.status, c.annotations, m.route,
                WithRouteWrite(Return("none", m.err, "Deleting"), 0, m))

\* Mutant: a terminal phase consumes the resume annotation.
terminalPhase_DropResume(c, rt) ==
    Outcome(c.status, c.annotations \ {AnnResume}, rt,
            Return("none", FALSE, c.status.phase))

\* Mutant: abort is honoured in every phase.
terminalPhase_AbortAnywhere(c, rt) ==
    IF AnnAbort \in c.annotations /\ c.status.phase = PhaseSucceeded
    THEN Outcome(AbortedStatus(c.status), c.annotations, rt,
                 WithStatusUpdate(Return("5s", FALSE, c.status.phase), TRUE))
    ELSE Outcome(c.status, c.annotations, rt, Return("none", FALSE, c.status.phase))

\* Succeeded and Failed: no action.
terminalPhase(c, rt) ==
    Outcome(c.status, c.annotations, rt, Return("none", FALSE, c.status.phase))

\* Reconcile, after the Get of the rollout: the stored status, annotations and
\* route it leaves, and what it did.
ReconcileOutcome(c, rt, provider, io) ==
    IF ~c.exists
    THEN Outcome(c.status, c.annotations, rt, Return("none", FALSE, "NotFound"))
    ELSE IF c.deletionTimestamp
    THEN handleDeletion(c, rt, io)
    ELSE IF c.status.phase = ""
    THEN IF ~io.status
         THEN Outcome(c.status, c.annotations, rt,
                      WithStatusUpdate(Return("none", TRUE, ""), FALSE))
         ELSE Outcome(PendingStatus(c.status), c.annotations, rt,
                      WithStatusUpdate(Return("5s", FALSE, ""), TRUE))
    ELSE CASE c.status.phase = PhasePending     -> handlePending(c, rt, io)
           [] c.status.phase = PhaseProgressing -> handleProgressing(c, rt, provider, io)
           [] c.status.phase = PhasePaused      -> handlePaused(c, rt, io)
           [] c.status.phase = PhaseRollingBack -> handleRollingBack(c, rt, io)
           [] c.status.phase \in {PhaseSucceeded, PhaseFailed} -> terminalPhase(c, rt)
           [] OTHER -> Outcome(c.status, c.annotations, rt,
                               Return("none", FALSE, c.status.phase))

\* The outcomes of the external calls of one invocation.
IO == [route : BOOLEAN, update : BOOLEAN, status : BOOLEAN, readings : Readings]

\* An outcome is drawn only for a call the invocation makes; the outcome of a
\* call it does not make is fixed (success, healthy readings).
Consumed(res, io) ==
    /\ io.route \/ Len(res.routeWrites) > 0
    /\ io.update \/ res.updates > 0
    /\ io.status \/ res.statusUpdates > 0
    /\ io.readings = Healthy \/ res.queries > 0

LastSuccessfulWrite(res, previous) ==
    LET ok == {i \in 1..Len(res.routeWrites) : res.routeWrites[i].ok}
    IN  IF ok = {} THEN previous
        ELSE res.routeWrites[CHOOSE i \in ok : \A j \in ok : j <= i].weight

\* ----------------------------------------------------------------- actions
Reconcile(io) ==
    \E out \in {ReconcileOutcome(canary, httpRoute, MetricsProvider, io)} :
        /\ Consumed(out.res, io)
        /\ canary' = [canary EXCEPT !.status = out.status,
                                    !.annotations = out.annotations]
        /\ httpRoute' = out.route
        /\ lastRouteWeight' = LastSuccessfulWrite(out.res, lastRouteWeight)
        /\ UNCHANGED MetricsProvider

\* updateCanaryAnnotation (API server): the author sets an intent annotation (on
\* a rollout that is not being deleted).
updateCanaryAnnotation(key) ==
    /\ canary.exists
    /\ ~canary.deletionTimestamp
    /\ key \notin canary.annotations
    /\ canary' = [canary EXCEPT !.annotations = @ \cup {key}]
    /\ UNCHANGED <<httpRoute, MetricsProvider, lastRouteWeight>>

\* An object removed from the store: nothing of it is left but its identity.
Removed(c) ==
    [c EXCEPT !.exists = FALSE, !.deletionTimestamp = FALSE, !.annotations = {},
              !.status = EmptyStatus]

\* deleteCanaryDeployment (API server): the object is marked for deletion when a
\* finalizer holds it, and removed otherwise.
deleteCanaryDeployment(held) ==
    /\ canary.exists
    /\ ~canary.deletionTimestamp
    /\ canary' = IF held THEN [canary EXCEPT !.deletionTimestamp = TRUE]
                 ELSE Removed(canary)
    /\ UNCHANGED <<httpRoute, MetricsProvider, lastRouteWeight>>

\* The holder of the finalizer releases an object marked for deletion.
Finalize ==
    /\ canary.exists
    /\ canary.deletionTimestamp
    /\ canary' = Removed(canary)
    /\ UNCHANGED <<httpRoute, MetricsProvider, lastRouteWeight>>

\* The deployments considered: analysis skipped, not configured, configured
\* without a success rate, configured without a provider, and configured.
Setups ==
    { <<TRUE, FullAnalysis, TRUE>>, <<FALSE, NoAnalysis, TRUE>>,
      <<FALSE, LatencyOnly, TRUE>>, <<FALSE, FullAnalysis, FALSE>>,
      <<FALSE, FullAnalysis, TRUE>> }

Init ==
    /\ canary \in [exists : {TRUE}, deletionTimestamp : {FALSE}, annotations : {{}},
                   spec : CanaryDeploymentSpec, status : {EmptyStatus}]
    /\ httpRoute \in InitialRoutes
    /\ MetricsProvider \in BOOLEAN
    /\ <<canary.spec.skipAnalysis, canary.spec.analysis, MetricsProvider>> \in Setups
    /\ lastRouteWeight = 0

\* The engine, the author's intents and deletion.
Next ==
    \/ \E io \in IO : Reconcile(io)
    \/ \E key \in Intents : updateCanaryAnnotation(key)
    \/ \E held \in BOOLEAN : deleteCanaryDeployment(held)
    \/ Finalize

Spec == Init /\ [][Next]_vars


\* An invocation all of whose external calls succeed, with healthy readings.
AllOK == [route |-> TRUE, update |-> TRUE, status |-> TRUE, readings |-> Healthy]

ReconcileOK == Reconcile(AllOK)

\* The engine without failures of its collaborators, re-invoked as long as an
\* invocation changes something (every path that leaves work to do requeues, and
\* an annotation update is a change notification), and the author's intents.
FairNext ==
    \/ ReconcileOK
    \/ \E key \in Intents : updateCanaryAnnotation(key)

FairSpec == Init /\ [][FairNext]_vars /\ WF_vars(ReconcileOK)

\* The intents a handler reads (handlePaused: resume, abort).
IntentsRead == {AnnResume, AnnAbort}

\* The readings of a backend that answers every query: each run of the analyzer
\* ends in a verdict.
Verdicts == {rd \in Readings : /\ rd.metric # QueryError
                               /\ rd.successRate # QueryError
                               /\ rd.latency # QueryError}

\* An invocation whose writes succeed and whose analyzer, if run, gets answers.
ReconcileVerdict == \E rd \in Verdicts : Reconcile([AllOK EXCEPT !.readings = rd])

\* The engine with writes that succeed and a backend that answers, re-invoked
\* as long as an invocation changes something, and the intents a handler reads.
VerdictNext ==
    \/ ReconcileVerdict
    \/ \E key \in IntentsRead : updateCanaryAnnotation(key)

VerdictSpec == Init /\ [][VerdictNext]_vars /\ WF_vars(ReconcileVerdict)

\* What a metrics backend that cannot be reached answers.
AllQueriesFail == Reading(QueryError, QueryError, QueryError)

\* An invocation against a metrics backend that cannot be reached: every query
\* it issues fails; its other calls succeed or fail as in Reconcile.
ReconcileDeadBackend ==
    \E io \in IO :
        /\ io.readings \in {Healthy, AllQueriesFail}
        /\ ReconcileOutcome(canary, httpRoute, MetricsProvider, io).res.queries > 0
              => io.readings = AllQueriesFail
        /\ Reconcile(io)

\* The engine with a dead metrics backend, and the author's intents.
DeadBackendNext ==
    \/ ReconcileDeadBackend
    \/ \E key \in Intents : updateCanaryAnnotation(key)

DeadBackendSpec == Init /\ [][DeadBackendNext]_vars

\* The engine with calls that may fail, on a rollout that is not deleted, and
\* the author's intents; an invocation whose calls all succeed is not postponed
\* forever (failures are transient, and every failing path requests a requeue).
\* The author sets the intents that a handler reads.
RetryNext ==
    \/ \E io \in IO : Reconcile(io)
    \/ \E key \in IntentsRead : updateCanaryAnnotation(key)

RetrySpec == Init /\ [][RetryNext]_vars /\ WF_vars(ReconcileOK)

\* ----------------------------------------- the mutator on its own inputs
\* The backendRefs a rule may hold before a write: none, those of an earlier
\* owner, or an even split written earlier.
RefChoices ==
    { <<>>, StaleRefs,
      <<BackendRef(ServiceName, 50), BackendRef(CanaryServiceName(ServiceName), 50)>> }

\* The matches a rule may hold: none, one path, two paths.
MatchChoices == {<<>>, <<"/api">>, <<"/api", "/v2">>}

RuleChoices == [matches : MatchChoices, backendRefs : RefChoices]

\* The routes UpdateTrafficSplit may find: none, or one of up to MaxRules rules.
MutatorRoutes ==
    {NoRoute} \cup {[exists |-> TRUE, rules |-> rs] : rs \in SeqsUpTo(RuleChoices, MaxRules)}

\* The canary weights written: the ends, a step weight and an even split.
MutatorWeights == {0, 30, 50, 100}

MutatorInit ==
    /\ canary = [exists |-> TRUE, deletionTimestamp |-> FALSE, annotations |-> {},
                 spec |-> [service |-> ServiceName, trafficSplit |-> <<>>,
                           analysis |-> NoAnalysis, skipAnalysis |-> TRUE],
                 status |-> EmptyStatus]
    /\ httpRoute \in MutatorRoutes
    /\ MetricsProvider = FALSE
    /\ lastRouteWeight = 0

\* One call of UpdateTrafficSplit(canary, w); ok = FALSE is a failing Get or
\* Update.
ApplyTrafficSplit(w, ok) ==
    \E m \in {UpdateTrafficSplit(httpRoute, canary.spec, w, ok)} :
        /\ httpRoute' = m.route
        /\ lastRouteWeight' = IF m.err THEN lastRouteWeight ELSE w
        /\ UNCHANGED <<canary, MetricsProvider>>

MutatorNext == \E w \in MutatorWeights, ok \in BOOLEAN : ApplyTrafficSplit(w, ok)

MutatorSpec == MutatorInit /\ [][MutatorNext]_vars

\* --------------------------------------------- the analyzer on its own
\* The number of metric criteria of an analysis block.
MaxCriteria == 2

\* The operators compareValues recognizes, and one it does not.
Operators == {">", ">=", "<", "<=", "==", "!=", "~"}

Criteria == [name : {"m"}, threshold : {5}, operator : Operators]

AnalysisBlocks ==
    [metrics : SeqsUpTo(Criteria, MaxCriteria), successRate : {0, 99},
     maxLatency : {0, 200}]

\* The answers of the backend to one run: a value below, at and above each
\* threshold, NaN for the float64 queries, or a failing query.
AnalysisReadings ==
    [metric : {4, 5, 6, NaN, QueryError}, successRate : {98, 99, NaN, QueryError},
     latency : {200, 201, QueryError}]

AnalyzerInit ==
    /\ canary \in [exists : {TRUE}, deletionTimestamp : {FALSE}, annotations : {{}},
                   spec : [service : {ServiceName},
                           trafficSplit : {<<[weight |-> 100, pause |-> FALSE]>>},
                           analysis : AnalysisBlocks, skipAnalysis : {FALSE}],
                   status : {[EmptyStatus EXCEPT !.phase = PhaseProgressing]}]
    /\ httpRoute = NoRoute
    /\ MetricsProvider = TRUE
    /\ lastRouteWeight = 0

\* One call of runAnalysis: the run is recorded in the status when the provider
\* returns no error.
Analyze(rd) ==
    /\ canary' = [canary EXCEPT
                     !.status.analysisRun = runAnalysis(canary, MetricsProvider, rd).run]
    /\ UNCHANGED <<httpRoute, MetricsProvider, lastRouteWeight>>

AnalyzerNext == \E rd \in AnalysisReadings : Analyze(rd)

AnalyzerSpec == AnalyzerInit /\ [][AnalyzerNext]_vars

\* ------------------------------------------- two rollouts in one store
\* In PairSpec the store holds two rollouts and two routes: canary is the
\* CanaryDeployments by name, httpRoute the HTTPRoutes by name and
\* lastRouteWeight the last successful write of each route.
Names == {"a", "b"}

RouteNames == {"route-a", "route-b"}

\* Spec.Gateway.HTTPRoute of each rollout: the two reference different routes.
HTTPRouteOf(name) == IF name = "a" THEN "route-a" ELSE "route-b"

\* Mutant: every rollout's route is looked up under the same name.
RouteKey_Fixed(name) == "route-a"

\* The name under which UpdateTrafficSplit gets and updates the route.
RouteKey(name) == HTTPRouteOf(name)

\* Two unpaused steps without analysis, or one step with all three criteria.
PairRollouts ==
    { [service |-> ServiceName,
       trafficSplit |-> <<[weight |-> 30, pause |-> FALSE],
                          [weight |-> 100, pause |-> FALSE]>>,
       analysis |-> NoAnalysis, skipAnalysis |-> TRUE],
      [service |-> ServiceName,
       trafficSplit |-> <<[weight |-> 100, pause |-> FALSE]>>,
       analysis |-> FullAnalysis, skipAnalysis |-> FALSE] }

PairInit ==
    /\ canary \in [Names -> [exists : {TRUE}, deletionTimestamp : {FALSE},
                             annotations : {{}}, spec : PairRollouts,
                             status : {EmptyStatus}]]
    /\ httpRoute \in [RouteNames -> InitialRoutes]
    /\ MetricsProvider = TRUE
    /\ lastRouteWeight = [r \in RouteNames |-> 0]

\* Reconcile for the request that names one rollout: the rollout is read by the
\* request's name, its route by the name the rollout gives, and each is written
\* back under the name it was read by.
ReconcileRequest(name, io) ==
    \E out \in {ReconcileOutcome(canary[name], httpRoute[RouteKey(name)],
                                 MetricsProvider, io)} :
        /\ Consumed(out.res, io)
        /\ canary' = [canary EXCEPT ![name].status = out.status,
                                    ![name].annotations = out.annotations]
        /\ httpRoute' = [httpRoute EXCEPT ![RouteKey(name)] = out.route]
        /\ lastRouteWeight' =
              [lastRouteWeight EXCEPT ![RouteKey(name)] = LastSuccessfulWrite(out.res, @)]
        /\ UNCHANGED MetricsProvider

PairNext == \E name \in Names, io \in IO : ReconcileRequest(name, io)

PairSpec == PairInit /\ [][PairNext]_vars

\* ---------------------------------------------------------------- properties
Live     == canary.exists /\ ~canary.deletionTimestamp
Observed == canary.exists /\ canary.status.phase # ""

\* A trafficSplit the specification calls well-formed: at least one step, every
\* weight in [0,100], weights non-decreasing.
WellFormed(ts) ==
    /\ Len(ts) >= 1
    /\ \A i \in 1..Len(ts) : ts[i].weight >= 0 /\ ts[i].weight <= 100
    /\ \A i \in 1..Len(ts) : \A j \in 1..Len(ts) : i <= j => ts[i].weight <= ts[j].weight

\* The share of a rule's traffic that goes to the canary backend, in percent of
\* the weights of the rule (0 for a rule without backends).
CanaryRefs(rule, spec) ==
    {i \in 1..Len(rule.backendRefs) :
        rule.backendRefs[i].name = CanaryServiceName(spec.service)}

RouteAllCanary(rt, spec) ==
    /\ rt.exists
    /\ \A i \in 1..Len(rt.rules) :
         rt.rules[i].backendRefs = <<BackendRef(CanaryServiceName(spec.service), 100)>>

RouteNoCanary(rt, spec) ==
    /\ rt.exists
    /\ \A i \in 1..Len(rt.rules) :
         \A k \in CanaryRefs(rt.rules[i], spec) : rt.rules[i].backendRefs[k].weight = 0

\* The outcomes of one invocation in the current state, one per input.
Invocation(io) == ReconcileOutcome(canary, httpRoute, MetricsProvider, io)

\* C1: the stored canaryWeight is the canary weight of the most recent successful
\* route write (0 before the first).  Stated as the step that keeps it so: on a
\* live rollout with a well-formed trafficSplit whose stored canaryWeight is the
\* last enacted weight, a step that changes the stored status leaves the stored
\* canaryWeight equal to the weight last enacted on the route.
C1_StatusWeightIsEnacted ==
    [][ ( /\ Live /\ Live'
          /\ WellFormed(canary.spec.trafficSplit)
          /\ canary.status.canaryWeight = lastRouteWeight
          /\ canary'.status # canary.status )
        => canary'.status.canaryWeight = lastRouteWeight' ]_vars

\* C2: a live rollout with a well-formed trafficSplit whose stored phase is
\* Succeeded has a route that sends everything to the canary backend, and one
\* whose stored phase is Failed has a route that sends nothing to it.
C2_TerminalPhaseMatchesRoute ==
    (Live /\ WellFormed(canary.spec.trafficSplit)) =>
        /\ canary.status.phase = PhaseSucceeded => RouteAllCanary(httpRoute, canary.spec)
        /\ canary.status.phase = PhaseFailed => RouteNoCanary(httpRoute, canary.spec)

\* C3: once the engine has observed the rollout (phase non-empty), the stored
\* canaryWeight and stableWeight sum to 100.
C3_WeightsSumTo100 ==
    Observed => canary.status.canaryWeight + canary.status.stableWeight = 100

\* C3 witness: a rollout paused at a 30% step, weights (30, 70), after a failed
\* route write had been recorded on the way.
C3_Witness ==
    /\ Observed
    /\ canary.status.phase = PhasePaused
    /\ canary.status.canaryWeight = 30
    /\ canary.status.stableWeight = 70
    /\ canary.status.currentStep = 1


\* C4: the stored currentStep stays within 0..len(trafficSplit), and no invocation
\* reads trafficSplit at an index outside 0..len(trafficSplit)-1.
C4_CurrentStepInRange ==
    canary.exists =>
        /\ canary.status.currentStep >= 0
        /\ canary.status.currentStep <= Len(canary.spec.trafficSplit)
        /\ \A io \in IO :
             \A index \in {Invocation(io).res.index} :
                 index # -1 => (index >= 0 /\ index < Len(canary.spec.trafficSplit))

\* C4 witness: resumed from a pause at the last step, currentStep = len.
C4_Witness ==
    /\ Live
    /\ canary.status.phase = PhaseProgressing
    /\ canary.status.message = "Resumed from pause"
    /\ Len(canary.spec.trafficSplit) >= 1
    /\ canary.status.currentStep = Len(canary.spec.trafficSplit)

RouteReset == <<[weight |-> 0, ok |-> TRUE]>>

\* C6: an invocation stores Failed only from RollingBack, after its route write
\* with canary weight 0 succeeded, and with weights (0, 100); a RollingBack
\* invocation whose route write fails writes no status and leaves the phase; and
\* a stored phase Pending or Failed comes with canaryWeight 0.
C6_FailedOnlyAfterReset ==
    /\ Live =>
         \A io \in IO : \A out \in {Invocation(io)} :
           LET st  == canary.status
           IN  /\ (out.status.phase = PhaseFailed /\ st.phase # PhaseFailed) =>
                     /\ st.phase = PhaseRollingBack
                     /\ out.res.routeWrites = RouteReset
                     /\ out.status.canaryWeight = 0
                     /\ out.status.stableWeight = 100
                     /\ RouteNoCanary(out.route, canary.spec)
               /\ (st.phase = PhaseRollingBack /\ out.res.routeWrites # RouteReset) =>
                     /\ out.status = st
                     /\ out.res.statusUpdates = 0
                     /\ out.route = httpRoute
    /\ (canary.exists /\ canary.status.phase \in {PhasePending, PhaseFailed}) =>
         canary.status.canaryWeight = 0

\* C6 witness: Failed after a rollback that reset the route.
C6_Witness ==
    /\ Live
    /\ canary.status.phase = PhaseFailed
    /\ canary.status.message = "Rollback completed"
    /\ canary.status.canaryWeight = 0
    /\ canary.status.stableWeight = 100
    /\ lastRouteWeight = 0
    /\ RouteNoCanary(httpRoute, canary.spec)
    /\ httpRoute.rules[1].backendRefs = <<BackendRef(ServiceName, 100)>>

Terminal == canary.status.phase \in {PhaseSucceeded, PhaseFailed}

\* C7: on a live rollout whose stored phase is Succeeded or Failed every
\* invocation leaves status, annotations and route as they are, makes no status
\* write, no metadata write, no route write and no metrics query, and returns no
\* requeue and no error; and no step changes a stored Succeeded or Failed phase.
C7_TerminalIsNoOp ==
    /\ [](( Live /\ Terminal) =>
            \A io \in IO :
              LET out == Invocation(io)
              IN  /\ out.status = canary.status
                  /\ out.annotations = canary.annotations
                  /\ out.route = httpRoute
                  /\ out.res.statusUpdates = 0
                  /\ out.res.updates = 0
                  /\ out.res.routeWrites = <<>>
                  /\ out.res.queries = 0
                  /\ ~out.res.analyzer
                  /\ out.res.requeueAfter = "none"
                  /\ ~out.res.err)
    /\ [][ (canary.exists /\ canary'.exists /\ Terminal)
           => canary'.status.phase = canary.status.phase ]_vars

\* C7 witness: Succeeded with every intent annotation set.
C7_Witness ==
    /\ Live
    /\ canary.status.phase = PhaseSucceeded
    /\ canary.annotations = Intents

\* C8: the invocation that acts on an intent annotation removes it: a step that
\* takes a Paused rollout to Progressing on resume=true leaves no resume
\* annotation, and a step that takes it to RollingBack on abort=true leaves no
\* abort annotation.  (No invocation acts on promote or pause.)
C8_ActedIntentIsRemoved ==
    [][ (Live /\ Live' /\ canary.status.phase = PhasePaused) =>
          /\ (AnnResume \in canary.annotations
                /\ canary'.status.phase = PhaseProgressing)
             => AnnResume \notin canary'.annotations
          /\ (AnnAbort \in canary.annotations
                /\ canary'.status.phase = PhaseRollingBack)
             => AnnAbort \notin canary'.annotations ]_vars

\* C9: abort takes precedence over resume: a step that changes the status of a
\* Paused rollout carrying both abort=true and resume=true stores RollingBack.
C9_AbortBeforeResume ==
    [][ ( /\ Live /\ Live'
          /\ canary.status.phase = PhasePaused
          /\ {AnnAbort, AnnResume} \subseteq canary.annotations
          /\ canary'.status # canary.status )
        => canary'.status.phase = PhaseRollingBack ]_vars


SucceededFull ==
    /\ canary.status.phase = PhaseSucceeded
    /\ canary.status.canaryWeight = 100
    /\ canary.status.stableWeight = 0

RollbackIsFinal ==
    [][ ( /\ Live /\ Live'
          /\ canary.status.phase \in {PhaseRollingBack, PhaseFailed} )
        => canary'.status.phase \in {PhaseRollingBack, PhaseFailed} ]_vars

\* The invocation that finds a RollingBack rollout with its route in place, all
\* of its calls succeeding, writes weight 0 and stores Failed with (0, 100).
RollbackCompletes ==
    ( /\ Live
      /\ canary.status.phase = PhaseRollingBack
      /\ httpRoute.exists )
    => /\ Invocation(AllOK).res.routeWrites = <<[weight |-> 0, ok |-> TRUE]>>
       /\ Invocation(AllOK).status.phase = PhaseFailed
       /\ Invocation(AllOK).status.canaryWeight = 0
       /\ Invocation(AllOK).status.stableWeight = 100

\* C11: the invocation that finds a Paused rollout with abort=true, all of its
\* calls succeeding, stores RollingBack with currentStep unchanged and removes the
\* abort annotation; the invocation that finds a RollingBack rollout and whose
\* route write of weight 0 succeeds stores Failed with weights (0, 100); and a
\* rollout that is rolling back never leaves RollingBack / Failed.
C11_AbortWhilePaused ==
    /\ [] ( ( /\ Live
              /\ canary.status.phase = PhasePaused
              /\ AnnAbort \in canary.annotations )
            => /\ Invocation(AllOK).status.phase = PhaseRollingBack
               /\ Invocation(AllOK).status.currentStep = canary.status.currentStep
               /\ AnnAbort \notin Invocation(AllOK).annotations )
    /\ []RollbackCompletes
    /\ RollbackIsFinal

\* C12: the invocation that finds a Paused rollout with promote=true, all of its
\* calls succeeding, stores Progressing with currentStep = len(trafficSplit) and
\* removes the promote annotation.
C12_PromoteSkipsSteps ==
    ( /\ Live
      /\ canary.status.phase = PhasePaused
      /\ AnnPromote \in canary.annotations )
    => /\ Invocation(AllOK).status.phase = PhaseProgressing
       /\ Invocation(AllOK).status.currentStep = Len(canary.spec.trafficSplit)
       /\ AnnPromote \notin Invocation(AllOK).annotations

\* C13: the invocation that finds a Progressing rollout with pause=true at a step
\* still to do, and whose route write succeeds, stores Paused without advancing
\* currentStep and removes the pause annotation.
C13_PauseAnnotationForcesPause ==
    ( /\ Live
      /\ canary.status.phase = PhaseProgressing
      /\ canary.status.currentStep < Len(canary.spec.trafficSplit)
      /\ httpRoute.exists
      /\ AnnPause \in canary.annotations )
    => /\ Invocation(AllOK).status.phase = PhasePaused
       /\ Invocation(AllOK).status.currentStep = canary.status.currentStep
       /\ AnnPause \notin Invocation(AllOK).annotations

\* The invocation on the rollout as it would be without its resume annotation.
WithoutResume(io) ==
    ReconcileOutcome([canary EXCEPT !.annotations = @ \ {AnnResume}],
                     httpRoute, MetricsProvider, io)

C15_MalformedSpecFails ==
    [][ ( /\ Live /\ Live'
          /\ canary.status.phase = PhasePending
          /\ ~WellFormed(canary.spec.trafficSplit)
          /\ canary'.status # canary.status )
        => /\ canary'.status.phase = PhaseFailed
           /\ httpRoute' = httpRoute ]_vars

\* C16: a step that changes the stored status of a live Pending rollout whose
\* route does not exist stores Failed.
C16_MissingRouteFails ==
    [][ ( /\ Live /\ Live'
          /\ canary.status.phase = PhasePending
          /\ ~httpRoute.exists
          /\ canary'.status # canary.status )
        => canary'.status.phase = PhaseFailed ]_vars

\* ------------------------------------------------- analysis (C17 .. C20)
\* The step a Progressing invocation is about to apply.
StepToDo == canary.spec.trafficSplit[canary.status.currentStep + 1]

\* A live Progressing rollout at an unpaused step still to do, its route in place.
AtUnpausedStep ==
    /\ Live
    /\ canary.status.phase = PhaseProgressing
    /\ canary.status.currentStep < Len(canary.spec.trafficSplit)
    /\ ~StepToDo.pause
    /\ httpRoute.exists

\* C17: at an unpaused step, an invocation whose route write and status update
\* succeed and to which the analyzer returns a failing verdict (no query error)
\* has written the step's weight and stores RollingBack with currentStep
\* unchanged; the next invocation, its calls succeeding, writes weight 0 and
\* stores Failed with (0, 100); and the rollout never leaves RollingBack / Failed.
C17_AnalysisRollback ==
    /\ [] ( AtUnpausedStep =>
              \A io \in IO :
                 ( /\ io.route /\ io.status
                   /\ Invocation(io).res.analyzer
                   /\ ~RunAnalysis(canary.spec.analysis, io.readings).err
                   /\ ~RunAnalysis(canary.spec.analysis, io.readings).passed )
                 => /\ Invocation(io).res.routeWrites
                         = <<[weight |-> StepToDo.weight, ok |-> TRUE]>>
                    /\ Invocation(io).status.phase = PhaseRollingBack
                    /\ Invocation(io).status.currentStep = canary.status.currentStep
                    /\ Invocation(io).status.analysisRun.phase = "Failed" )
    /\ []RollbackCompletes
    /\ RollbackIsFinal

\* C17 witness: Failed after a rollback, the stored analysis run being a failed
\* one with a measured success rate of 80.
C17_Witness ==
    /\ Live
    /\ canary.status.phase = PhaseFailed
    /\ canary.status.message = "Rollback completed"
    /\ canary.status.canaryWeight = 0
    /\ canary.status.stableWeight = 100
    /\ canary.status.analysisRun.phase = "Failed"
    /\ canary.status.analysisRun.successRate = 80

\* A criterion of the analysis block is configured and the readings (none of
\* them a query error) violate it.
CriterionViolated(analysis, rd) ==
    /\ rd.metric # QueryError /\ rd.successRate # QueryError /\ rd.latency # QueryError
    /\ \/ \E i \in 1..Len(analysis.metrics) :
              ~compareValues(rd.metric, analysis.metrics[i].threshold,
                             analysis.metrics[i].operator)
       \/ analysis.successRate > 0 /\ rd.successRate < analysis.successRate
       \/ analysis.maxLatency > 0 /\ rd.latency > analysis.maxLatency

\* C18: with skipAnalysis false and a metrics provider configured, at an unpaused
\* step, an invocation whose route write and status update succeed and whose
\* readings violate a configured criterion stores RollingBack with currentStep
\* unchanged, whichever criteria are configured.
C18_AnyViolatedCriterionRollsBack ==
    ( /\ AtUnpausedStep
      /\ ~canary.spec.skipAnalysis
      /\ MetricsProvider )
    => \A io \in IO :
          ( /\ io.route /\ io.status
            /\ CriterionViolated(canary.spec.analysis, io.readings) )
          => /\ Invocation(io).status.phase = PhaseRollingBack
             /\ Invocation(io).status.currentStep = canary.status.currentStep

\* C19: at an unpaused step, an invocation whose route write and status update
\* succeed and in which a metrics query of the analyzer fails has an analysis
\* result with phase Failed and passed = false, and stores RollingBack.
C19_QueryErrorIsFailedVerdict ==
    AtUnpausedStep =>
        \A io \in IO :
           ( /\ io.route /\ io.status
             /\ Invocation(io).res.analyzer
             /\ RunAnalysis(canary.spec.analysis, io.readings).err )
           => /\ RunAnalysis(canary.spec.analysis, io.readings).phase = "Failed"
              /\ ~RunAnalysis(canary.spec.analysis, io.readings).passed
              /\ Invocation(io).status.phase = PhaseRollingBack

AtStep ==
    /\ Live
    /\ canary.status.phase = PhaseProgressing
    /\ canary.status.currentStep < Len(canary.spec.trafficSplit)

\* C21: in Progressing with a step to do, an invocation whose route write fails
\* keeps phase, currentStep, canaryWeight, stableWeight and the route, requests a
\* requeue after 30s without error and (its status update succeeding) stores the
\* error message; every invocation leaves currentStep or advances it by one, and
\* advances it only after a successful write of that step's weight; and at an
\* unpaused step without analysis, the invocation whose calls succeed advances it.
C21_TransientRouteFailure ==
    AtStep =>
        \A io \in IO : \A out \in {Invocation(io)} :
            LET st  == canary.status
            IN  /\ (~io.route \/ ~httpRoute.exists) =>
                      /\ out.status.phase = PhaseProgressing
                      /\ out.status.currentStep = st.currentStep
                      /\ out.status.canaryWeight = st.canaryWeight
                      /\ out.status.stableWeight = st.stableWeight
                      /\ out.route = httpRoute
                      /\ out.res.requeueAfter = "30s"
                      /\ ~out.res.err
                      /\ io.status => out.status.message = "Failed to update traffic split"
                /\ out.status.currentStep \in {st.currentStep, st.currentStep + 1}
                /\ out.status.currentStep = st.currentStep + 1 =>
                      out.res.routeWrites = <<[weight |-> StepToDo.weight, ok |-> TRUE]>>
                /\ ( /\ io.route /\ httpRoute.exists /\ io.status
                     /\ ~StepToDo.pause /\ ~AnalysisConfigured(canary.spec) )
                   => out.status.currentStep = st.currentStep + 1

\* C21 witness: the second step's route write has failed on a route that is in
\* place, after the first step (30%) was applied and advanced.
C21_Witness ==
    /\ Live
    /\ httpRoute.exists
    /\ canary.status.phase = PhaseProgressing
    /\ canary.status.message = "Failed to update traffic split"
    /\ canary.status.currentStep = 1
    /\ canary.status.canaryWeight = 30
    /\ canary.status.stableWeight = 70

\* C22: for a rollout with skipAnalysis true or an empty analysis block, no
\* invocation, in any phase and whatever its calls return, invokes the analyzer or
\* issues a metrics query; and at an unpaused step the invocation whose route
\* write and status update succeed advances currentStep and stays Progressing.
C22_NoAnalysisNoQueries ==
    ( canary.spec.skipAnalysis \/ canary.spec.analysis = NoAnalysis ) =>
        \A io \in IO : \A out \in {Invocation(io)} :
            /\ ~out.res.analyzer
            /\ out.res.queries = 0
            /\ ( AtUnpausedStep /\ io.route /\ io.status ) =>
                  /\ out.status.phase = PhaseProgressing
                  /\ out.status.currentStep = canary.status.currentStep + 1

\* C22 witness: with skipAnalysis true, a full analysis block and a metrics
\* provider configured, the first, unpaused step has been applied and advanced.
C22_Witness ==
    /\ Live
    /\ canary.spec.skipAnalysis
    /\ canary.spec.analysis = FullAnalysis
    /\ MetricsProvider
    /\ canary.status.phase = PhaseProgressing
    /\ canary.status.currentStep = 1
    /\ canary.status.message = "Traffic split updated"
    /\ ~canary.spec.trafficSplit[1].pause

\* A rollout with at least one step, none paused, skipAnalysis true, and its
\* route in place.
HappyPath ==
    /\ Live
    /\ canary.spec.skipAnalysis
    /\ Len(canary.spec.trafficSplit) >= 1
    /\ \A i \in 1..Len(canary.spec.trafficSplit) : ~canary.spec.trafficSplit[i].pause
    /\ httpRoute.exists

\* What the invocation whose calls all succeed does on the happy path, by the
\* stored phase it finds.
HappyPathInvocation ==
    LET out == Invocation(AllOK)
        st  == canary.status
        n   == Len(canary.spec.trafficSplit)
    IN  CASE st.phase = "" ->
                 /\ out.status.phase = PhasePending
                 /\ out.res.routeWrites = <<>>
          [] st.phase = PhasePending ->
                 /\ out.status.phase = PhaseProgressing
                 /\ out.status.currentStep = 0
                 /\ out.res.routeWrites = <<>>
          [] st.phase = PhaseProgressing /\ st.currentStep < n ->
                 /\ out.status.phase = PhaseProgressing
                 /\ out.status.currentStep = st.currentStep + 1
                 /\ out.status.canaryWeight = StepToDo.weight
                 /\ out.res.routeWrites = <<[weight |-> StepToDo.weight, ok |-> TRUE]>>
          [] st.phase = PhaseProgressing /\ st.currentStep = n ->
                 /\ out.status.phase = PhaseSucceeded
                 /\ out.status.canaryWeight = 100
                 /\ out.status.stableWeight = 0
                 /\ out.res.routeWrites = <<>>
          [] st.phase = PhaseSucceeded ->
                 /\ out.status = st
                 /\ out.res.routeWrites = <<>>
          [] OTHER -> FALSE

\* C23: with collaborators that do not fail, a rollout of n >= 1 unpaused steps
\* with skipAnalysis true goes from Pending to Progressing at step 0, then makes
\* one route write per invocation, carrying the weight of step 1, 2, .. n in
\* order and advancing currentStep each time, then stores Succeeded with weights
\* (100, 0) without a further route write; and it does reach Succeeded, the last
\* route write being that of step n.
C23_HappyPath ==
    /\ [] ( HappyPath =>
              /\ HappyPathInvocation
              /\ ( canary.status.phase = PhaseProgressing /\ canary.status.currentStep >= 1 )
                 => lastRouteWeight
                      = canary.spec.trafficSplit[canary.status.currentStep].weight )
    /\ HappyPath ~>
         ( /\ HappyPath
           /\ SucceededFull
           /\ canary.status.currentStep = Len(canary.spec.trafficSplit)
           /\ lastRouteWeight
                = canary.spec.trafficSplit[Len(canary.spec.trafficSplit)].weight )

\* C23 witness: Succeeded with weights (100, 0) after the two unpaused steps 30
\* and 100, analysis skipped, the last route write at 100.
C23_Witness ==
    /\ HappyPath
    /\ SucceededFull
    /\ canary.spec.trafficSplit
         = <<[weight |-> 30, pause |-> FALSE], [weight |-> 100, pause |-> FALSE]>>
    /\ canary.status.currentStep = 2
    /\ lastRouteWeight = 100

\* -------------------------------------------------- the mutator (C24 ..)
\* The sum of the weights of a list of backendRefs.
WeightSum(refs) ==
    LET sum[i \in 0..Len(refs)] == IF i = 0 THEN 0 ELSE sum[i - 1] + refs[i].weight
    IN  sum[Len(refs)]

\* The route a successful UpdateTrafficSplit(canary, w) leaves.
Written(w) == UpdateTrafficSplit(httpRoute, canary.spec, w, TRUE).route

\* C24: after a successful UpdateTrafficSplit(canary, w), for any w in 0..100 and
\* from any route reached by earlier writes, the weights of the backendRefs of
\* every rule sum to 100; and any step that changes the route leaves it so.
C24_RuleWeightsSumTo100 ==
    /\ [] ( httpRoute.exists =>
              \A w \in 0..100 :
                 \A i \in 1..Len(Written(w).rules) :
                    WeightSum(Written(w).rules[i].backendRefs) = 100 )
    /\ [][ httpRoute' # httpRoute =>
             \A i \in 1..Len(httpRoute'.rules) :
                WeightSum(httpRoute'.rules[i].backendRefs) = 100 ]_vars

\* C24 witness: a route of MaxRules rules that held backends of an earlier owner,
\* written at 30: every rule's weights are 70 and 30.
C24_Witness ==
    /\ httpRoute.exists
    /\ lastRouteWeight = 30
    /\ Len(httpRoute.rules) = MaxRules
    /\ \A i \in 1..Len(httpRoute.rules) :
          /\ Len(httpRoute.rules[i].backendRefs) = 2
          /\ httpRoute.rules[i].backendRefs[1].weight = 70
          /\ httpRoute.rules[i].backendRefs[2].weight = 30

\* The backendRefs the specification gives for canary weight w.
ExpectedRefs(w) ==
    IF w = 0 THEN <<[name |-> canary.spec.service, weight |-> 100]>>
    ELSE IF w = 100 THEN <<[name |-> canary.spec.service \o "-canary", weight |-> 100]>>
    ELSE << [name |-> canary.spec.service, weight |-> 100 - w],
            [name |-> canary.spec.service \o "-canary", weight |-> w] >>

\* C25: a successful UpdateTrafficSplit(canary, w), w in 0..100, leaves in every
\* rule of the route the same backendRefs: the stable backend alone at 100 for
\* w = 0, the canary backend alone at 100 for w = 100, and otherwise the stable
\* backend at 100 - w followed by the canary backend at w.
C25_BackendRefsByWeight ==
    httpRoute.exists =>
        \A w \in 0..100 :
           \A i \in 1..Len(Written(w).rules) :
              Written(w).rules[i].backendRefs = ExpectedRefs(w)

\* C25 witness: a route of MaxRules rules written at 100: every rule holds the
\* canary backend alone.
C25_Witness ==
    /\ httpRoute.exists
    /\ lastRouteWeight = 100
    /\ Len(httpRoute.rules) = MaxRules
    /\ \A i \in 1..Len(httpRoute.rules) :
          httpRoute.rules[i].backendRefs = <<BackendRef("app-canary", 100)>>

\* The route with the backendRefs of every rule replaced by refs.
WithRefs(rt, refs) ==
    [rt EXCEPT !.rules = [i \in 1..Len(rt.rules) |->
                             [rt.rules[i] EXCEPT !.backendRefs = refs]]]

\* C26: for every w in 0..100, a second successful UpdateTrafficSplit(canary, w)
\* leaves the route the first one left, and the route the first one leaves is
\* the same whatever backendRefs the rules held before.
C26_UpdateIsIdempotent ==
    httpRoute.exists =>
        \A w \in 0..100 :
           /\ ~UpdateTrafficSplit(Written(w), canary.spec, w, TRUE).err
           /\ UpdateTrafficSplit(Written(w), canary.spec, w, TRUE).route = Written(w)
           /\ \A refs \in RefChoices :
                 UpdateTrafficSplit(WithRefs(httpRoute, refs), canary.spec, w, TRUE).route
                    = Written(w)

\* C26 witness: a route of two rules written at 50, both rules holding the even
\* split.
C26_Witness ==
    /\ httpRoute.exists
    /\ lastRouteWeight = 50
    /\ Len(httpRoute.rules) = 2
    /\ httpRoute.rules[1].backendRefs = httpRoute.rules[2].backendRefs
    /\ httpRoute.rules[1].backendRefs
         = <<BackendRef("app", 50), BackendRef("app-canary", 50)>>

\* C27: a successful UpdateTrafficSplit(canary, w) leaves the number of rules
\* and every rule's matches, an empty list of matches included, as they were.
C27_OnlyBackendRefsChange ==
    httpRoute.exists =>
        \A w \in 0..100 :
           /\ Written(w).exists
           /\ Len(Written(w).rules) = Len(httpRoute.rules)
           /\ \A i \in 1..Len(httpRoute.rules) :
                 Written(w).rules[i].matches = httpRoute.rules[i].matches

\* ------------------------------------------ deletion and rollback (C28 ..)
\* C28: a rollout whose route is in place leaves the store only when the last
\* successful route write was one of weight 0 and the route sends nothing to the
\* canary; and an invocation on a rollout marked for deletion makes one route
\* write, of weight 0, and no status or annotation write.
C28_CleanupBeforeDisappearance ==
    /\ [][ ( canary.exists /\ ~canary'.exists /\ httpRoute.exists )
           => /\ lastRouteWeight = 0
              /\ RouteNoCanary(httpRoute, canary.spec) ]_vars
    /\ [] ( ( canary.exists /\ canary.deletionTimestamp ) =>
              \A io \in IO :
                 /\ Len(Invocation(io).res.routeWrites) = 1
                 /\ Invocation(io).res.routeWrites[1].weight = 0
                 /\ Invocation(io).res.statusUpdates = 0
                 /\ Invocation(io).res.updates = 0
                 /\ Invocation(io).status = canary.status
                 /\ Invocation(io).annotations = canary.annotations )

\* C29: in RollingBack, an invocation whose route write fails leaves the status,
\* the annotations and the route as they are, makes no status write and requests
\* a requeue after 10s; no step takes a rollout from RollingBack to a phase other
\* than RollingBack or Failed; and, invocations whose calls succeed not being
\* postponed forever, a RollingBack rollout whose route is in place reaches
\* Failed with weights (0, 100).
C29_RollbackRetries ==
    /\ [] ( ( Live /\ canary.status.phase = PhaseRollingBack ) =>
              \A io \in IO :
                 ( ~io.route \/ ~httpRoute.exists ) =>
                    /\ Invocation(io).status = canary.status
                    /\ Invocation(io).annotations = canary.annotations
                    /\ Invocation(io).route = httpRoute
                    /\ Invocation(io).res.statusUpdates = 0
                    /\ Invocation(io).res.requeueAfter = "10s"
                    /\ ~Invocation(io).res.err )
    /\ RollbackIsFinal
    /\ ( canary.status.phase = PhaseRollingBack /\ httpRoute.exists )
         ~> ( /\ canary.status.phase = PhaseFailed
              /\ canary.status.canaryWeight = 0
              /\ canary.status.stableWeight = 100
              /\ lastRouteWeight = 0 )

\* C29 witness: Failed with weights (0, 100) after a rollback that the author's
\* abort started, the route reset.
C29_Witness ==
    /\ canary.status.phase = PhaseFailed
    /\ canary.status.message = "Rollback completed"
    /\ AnnAbort \in canary.annotations
    /\ canary.status.canaryWeight = 0
    /\ lastRouteWeight = 0
    /\ RouteNoCanary(httpRoute, canary.spec)

\* C30: the invocation, all of its calls succeeding, that finds abort=true on a
\* rollout that is Paused, or Progressing with a step to do and its route in
\* place, stores RollingBack; and no step takes a Progressing or Paused rollout
\* that carries abort=true to Succeeded.
C30_AbortStopsRollout ==
    /\ [] ( ( /\ Live
              /\ AnnAbort \in canary.annotations
              /\ \/ canary.status.phase = PhasePaused
                 \/ AtStep /\ httpRoute.exists )
            => Invocation(AllOK).status.phase = PhaseRollingBack )
    /\ [][ ( /\ Live /\ Live'
             /\ AnnAbort \in canary.annotations
             /\ canary.status.phase \in {PhaseProgressing, PhasePaused} )
           => canary'.status.phase # PhaseSucceeded ]_vars

\* ------------------------------------- writes and recovery (C31 .. C35)
\* C31: no step removes the resume annotation of a Paused rollout and leaves the
\* stored status Paused at the same currentStep.
C31_ConsumeIsAtomic ==
    [][ ( /\ Live /\ Live'
          /\ canary.status.phase = PhasePaused
          /\ AnnResume \in canary.annotations
          /\ AnnResume \notin canary'.annotations )
        => ~ ( /\ canary'.status.phase = PhasePaused
               /\ canary'.status.currentStep = canary.status.currentStep ) ]_vars

\* C32: every step that changes the stored currentStep of a live rollout adds
\* exactly 1 to it, at a currentStep k below len(trafficSplit), and leaves the
\* weight of step k as the last weight successfully written to the route.
C32_OneAdvancePerStep ==
    [][ ( /\ Live /\ Live'
          /\ canary'.status.currentStep # canary.status.currentStep )
        => /\ canary'.status.currentStep = canary.status.currentStep + 1
           /\ canary.status.currentStep < Len(canary.spec.trafficSplit)
           /\ lastRouteWeight' = StepToDo.weight ]_vars

\* C32 witness: both steps counted, the first (30%) a paused step that was
\* resumed, the second (100%) an unpaused one.
C32_Witness ==
    /\ Live
    /\ canary.spec.trafficSplit
         = <<[weight |-> 30, pause |-> TRUE], [weight |-> 100, pause |-> FALSE]>>
    /\ canary.status.phase = PhaseProgressing
    /\ canary.status.currentStep = 2
    /\ lastRouteWeight = 100

\* C33: in a Progressing invocation at a step to do: the analyzer is invoked, or
\* a metrics query issued, only after that step's route write succeeded and only
\* for an unpaused step; at a paused step whose route write and status update
\* succeed the invocation stores Paused; and an invocation that invoked the
\* analyzer advances currentStep only on a passing verdict.
C33_OrderWithinInvocation ==
    [] ( AtStep =>
            \A io \in IO : \A out \in {Invocation(io)} :
                LET verdict == RunAnalysis(canary.spec.analysis, io.readings)
                IN  /\ ( out.res.analyzer \/ out.res.queries > 0 ) =>
                          /\ out.res.routeWrites = <<[weight |-> StepToDo.weight, ok |-> TRUE]>>
                          /\ ~StepToDo.pause
                    /\ ( StepToDo.pause /\ io.route /\ httpRoute.exists /\ io.status ) =>
                          /\ out.status.phase = PhasePaused
                          /\ out.status.canaryWeight = StepToDo.weight
                          /\ out.status.analysisRun = canary.status.analysisRun
                    /\ ( out.res.analyzer
                         /\ out.status.currentStep # canary.status.currentStep ) =>
                          ~verdict.err /\ verdict.passed )

\* C33 witness: Paused at a first step of 30%, with analysis configured and a
\* metrics provider in place, and no analysis run recorded.
C33_Witness ==
    /\ Live
    /\ canary.status.phase = PhasePaused
    /\ canary.status.currentStep = 0
    /\ canary.status.canaryWeight = 30
    /\ AnalysisConfigured(canary.spec)
    /\ MetricsProvider
    /\ canary.status.analysisRun = NoAnalysisRun

\* C34: every invocation, in every state and whatever its calls return, makes at
\* most one route write and at most one status write.
C34_AtMostOneWriteEach ==
    [] ( \A io \in IO : \A out \in {Invocation(io)} :
            /\ Len(out.res.routeWrites) <= 1
            /\ out.res.statusUpdates <= 1 )

\* C34 witness: the second of two unpaused steps has been applied by an
\* invocation that wrote the route (100) and the status (currentStep 2).
C34_Witness ==
    /\ Live
    /\ canary.status.phase = PhaseProgressing
    /\ canary.status.message = "Traffic split updated"
    /\ canary.status.currentStep = 2
    /\ canary.status.canaryWeight = 100
    /\ lastRouteWeight = 100
    /\ ~canary.spec.trafficSplit[1].pause

\* C35: an invocation whose status write fails and leaves a non-terminal stored
\* phase (Pending, Progressing, RollingBack) ends with a requeue request or an
\* error, so the rollout is invoked again.
C35_FailedStatusWriteIsRetried ==
    Live =>
        \A io \in IO :
            LET out == Invocation(io)
            IN  ( /\ out.res.statusFailed
                  /\ out.status.phase \in {PhasePending, PhaseProgressing,
                                           PhaseRollingBack} )
                => ( out.res.requeueAfter # "none" \/ out.res.err )

\* A criterion is satisfied when its operator is one of the six recognized ones
\* and the relation it names holds between the value and the threshold.
Satisfied(value, operator, threshold) ==
    \/ operator \in {">", ">="} /\ Ordered(value, threshold) /\ value > threshold
    \/ operator \in {">=", "<=", "=="} /\ Ordered(value, threshold) /\ value = threshold
    \/ operator \in {"<", "<="} /\ Ordered(value, threshold) /\ value < threshold
    \/ operator = "!=" /\ ( ~Ordered(value, threshold) \/ value # threshold )

\* C36: when no query fails, the analysis passes exactly when every metric
\* criterion is satisfied, the measured success rate is at least the minimum (if
\* one is set) and the measured latency is at most the maximum (if one is set);
\* the run's phase is Successful when it passed and Failed otherwise.
C36_VerdictIsConjunction ==
    \A rd \in AnalysisReadings :
        LET analysis == canary.spec.analysis
            r == RunAnalysis(analysis, rd)
        IN  ~r.err =>
              /\ r.passed <=>
                   /\ \A i \in 1..Len(analysis.metrics) :
                         Satisfied(rd.metric, analysis.metrics[i].operator,
                                   analysis.metrics[i].threshold)
                   /\ analysis.successRate > 0 =>
                         ( /\ Ordered(rd.successRate, analysis.successRate)
                           /\ rd.successRate >= analysis.successRate )
                   /\ analysis.maxLatency > 0 => rd.latency <= analysis.maxLatency
              /\ r.phase = IF r.passed THEN "Successful" ELSE "Failed"

\* C37: with no metrics provider configured, an invocation at an unpaused step
\* whose route write and status update succeed advances currentStep by one
\* whatever the backend would have answered; no invocation of a Progressing
\* rollout issues a metrics query, calls the analyzer or stores RollingBack; and
\* no step takes a Progressing rollout to RollingBack.
C37_NoBackendAlwaysPasses ==
    /\ []( ( Live /\ ~MetricsProvider /\ canary.status.phase = PhaseProgressing ) =>
             \A io \in IO :
                 LET out == Invocation(io)
                 IN  /\ out.res.queries = 0
                     /\ ~out.res.analyzer
                     /\ out.status.phase # PhaseRollingBack
                     /\ ( AtUnpausedStep /\ io.route /\ io.status ) =>
                            /\ out.status.currentStep = canary.status.currentStep + 1
                            /\ out.status.phase = PhaseProgressing )
    /\ [][ ( /\ ~MetricsProvider
             /\ canary.status.phase = PhaseProgressing )
           => canary'.status.phase # PhaseRollingBack ]_vars

\* C37 witness: analysis is configured, no provider is, and the first step,
\* unpaused, has been applied and counted without an analysis run.
C37_Witness ==
    /\ Live
    /\ ~MetricsProvider
    /\ AnalysisConfigured(canary.spec)
    /\ canary.status.phase = PhaseProgressing
    /\ canary.status.currentStep = 1
    /\ ~canary.spec.trafficSplit[1].pause
    /\ lastRouteWeight = canary.spec.trafficSplit[1].weight
    /\ canary.status.analysisRun = NoAnalysisRun

C40_Progress ==
    /\ ( Live /\ httpRoute.exists )
         ~> canary.status.phase \in {PhaseSucceeded, PhaseFailed, PhasePaused}
    /\ [] ( ( /\ Live
              /\ canary.status.phase = PhasePaused
              /\ AnnResume \notin canary.annotations
              /\ AnnAbort \notin canary.annotations ) =>
              \A io \in IO :
                 LET out == Invocation(io)
                 IN  /\ out.status = canary.status
                     /\ out.annotations = canary.annotations
                     /\ out.route = httpRoute
                     /\ out.res.statusUpdates = 0
                     /\ out.res.updates = 0
                     /\ out.res.routeWrites = <<>>
                     /\ out.res.requeueAfter = "30s"
                     /\ ~out.res.err )

\* C40 witness: a rollout resumed from the pause of its first step is Paused
\* again at its second, with no annotation left.
C40_Witness ==
    /\ Live
    /\ canary.status.phase = PhasePaused
    /\ canary.status.currentStep = 1
    /\ canary.annotations = {}
    /\ Len(canary.spec.trafficSplit) = 2
    /\ canary.spec.trafficSplit[2].pause
    /\ lastRouteWeight = canary.spec.trafficSplit[2].weight

====
